---- MODULE Spec2Model ----
(***************************************************************************)
(* A model of the content-automation workflow: run_workflow and the four   *)
(* graph nodes of src/orchestrator/workflow.py, the brand-voice validator  *)
(* of src/agents/brand_voice.py and the topic scout of                     *)
(* src/agents/tech_scout.py.                                               *)
(*                                                                         *)
(* Texts are tuples of one-character strings, so that splitting, stripping *)
(* and substring search are computed character by character as Python      *)
(* does.  An Optional value is a tuple of length 0 (None) or 1.            *)
(***************************************************************************)
EXTENDS Integers, Sequences, FiniteSets, TLC

(***************************************************************************)
(* Optional values and Python truthiness.                                  *)
(***************************************************************************)
None == <<>>
Some(v) == <<v>>
Val(o) == o[1]
\* `not x` for an Optional[str]: None and the empty string are falsy.  A str
\* that is only carried around is a TLA+ string, a str whose characters are
\* inspected is a tuple of characters.
\* The test `x is None` in place of `not x`.
FalsyText_none_only(o) == o = None

FalsyStr(o) == IF o = None THEN TRUE ELSE Val(o) = ""
FalsyText(o) == IF o = None THEN TRUE ELSE Val(o) = <<>>

Min(a, b) == IF a < b THEN a ELSE b
Max(a, b) == IF a > b THEN a ELSE b

(***************************************************************************)
(* Strings as Python sees them.                                            *)
(***************************************************************************)
IsSpace(c) == c \in {" ", "\n", "\t"}

\* str.lower() on the alphabet the model's texts are written in.
LowerChar(c) ==
    CASE c = "W" -> "w"
      [] c = "Y" -> "y"
      [] c = "X" -> "x"
      [] c = "U" -> "u"
      [] OTHER -> c
Lower(t) == [i \in 1..Len(t) |-> LowerChar(t[i])]

\* `p in t` for strings: p occurs as a contiguous substring of t.
IsSubstring(p, t) ==
    \E i \in 0..(Len(t) - Len(p)) : \A j \in 1..Len(p) : t[i + j] = p[j]

RECURSIVE LStrip(_)
LStrip(t) == IF t # <<>> /\ IsSpace(Head(t)) THEN LStrip(Tail(t)) ELSE t
RECURSIVE RStrip(_)
RStrip(t) ==
    IF t # <<>> /\ IsSpace(t[Len(t)]) THEN RStrip(SubSeq(t, 1, Len(t) - 1)) ELSE t
Strip(t) == LStrip(RStrip(t))

\* t.split(c): the fragments between occurrences of the character c.
RECURSIVE SplitOn(_, _)
SplitOn(t, c) ==
    IF \A i \in 1..Len(t) : t[i] # c
    THEN <<t>>
    ELSE LET k == CHOOSE i \in 1..Len(t) : t[i] = c /\ \A j \in 1..(i - 1) : t[j] # c
         IN  <<SubSeq(t, 1, k - 1)>> \o SplitOn(SubSeq(t, k + 1, Len(t)), c)

\* len(s.split()): the number of maximal runs of non-whitespace characters.
WordCount(s) ==
    Cardinality({i \in 1..Len(s) : ~IsSpace(s[i]) /\ (i = 1 \/ IsSpace(s[i - 1]))})

RECURSIVE SumSeq(_)
SumSeq(q) == IF q = <<>> THEN 0 ELSE Head(q) + SumSeq(Tail(q))

RECURSIVE Rep(_, _)
Rep(t, n) == IF n = 0 THEN <<>> ELSE t \o Rep(t, n - 1)

(***************************************************************************)
(* BrandVoiceAgent._heuristic_check                                        *)
(***************************************************************************)
BaseScore == 70

\* [s.strip() for s in script.split('.') if s.strip()]
Sentences(script) ==
    LET frags == SplitOn(script, ".")
        stripped == [i \in 1..Len(frags) |-> Strip(frags[i])]
    IN  SelectSeq(stripped, LAMBDA s : s # <<>>)

\* Short sentences earning twice the bonus.
LengthAdjust_bonus20(sentences) ==
    LET total == SumSeq([i \in 1..Len(sentences) |-> WordCount(sentences[i])])
        n == Len(sentences)
    IN  IF total < 15 * n THEN 20
        ELSE IF total > 25 * n THEN -10
        ELSE 0

\* The two thresholds taken inclusively.
LengthAdjust_inclusive(sentences) ==
    LET total == SumSeq([i \in 1..Len(sentences) |-> WordCount(sentences[i])])
        n == Len(sentences)
    IN  IF total <= 15 * n THEN 10
        ELSE IF total >= 25 * n THEN -10
        ELSE 0

\* The adjustment for avg_length = sum(words) / len(sentences).  The float
\* quotient is below 15 (above 25) exactly when the integer sum is below
\* 15 * len (above 25 * len): the quotient of two small integers cannot round
\* onto the threshold.
LengthAdjust(sentences) ==
    LET total == SumSeq([i \in 1..Len(sentences) |-> WordCount(sentences[i])])
        n == Len(sentences)
    IN  IF total < 15 * n THEN 10
        ELSE IF total > 25 * n THEN -10
        ELSE 0

\* sum(1 for x in xs if x.lower() in script.lower()): one per list entry.
CountFound(xs, script) ==
    Cardinality({i \in 1..Len(xs) : IsSubstring(Lower(xs[i]), Lower(script))})

heuristic_check(brand_voice, script) ==
    LET sentences == Sentences(script)
        found_phrases == CountFound(brand_voice.signature_phrases, script)
        found_bad == CountFound(brand_voice.avoid, script)
        score == BaseScore + LengthAdjust(sentences)
                   + Min(found_phrases * 5, 15) - found_bad * 5
    IN  IF sentences = <<>> THEN BaseScore ELSE Max(0, Min(100, score))

(***************************************************************************)
(* Python float arithmetic for int(0.4 * heuristic_score + 0.6 * llm_score) *)
(*                                                                         *)
(* The doubles that occur are written exactly as [a, b], standing for      *)
(* a/5 + b/(5 * 2^55), with b small.  The literal 0.4 is the double        *)
(* 2/5 + 4/(5*2^55) and the literal 0.6 is 3/5 - 4/(5*2^55).  Each         *)
(* operation computes the exact result and rounds it to the nearest double *)
(* (53-bit significand, ties to even), as IEEE-754 does.                   *)
(***************************************************************************)
F04 == [a |-> 2, b |-> 4]
F06 == [a |-> 3, b |-> -4]

\* v >= 2^k, for a value v >= 0.
AtLeastPow2(v, k) ==
    IF k >= 0
    THEN v.a > 5 * 2^k \/ (v.a = 5 * 2^k /\ v.b >= 0)
    ELSE v.a * 2^(0 - k) > 5 \/ (v.a * 2^(0 - k) = 5 /\ v.b >= 0)

\* The binade of v > 0: 2^k <= v < 2^(k+1).
Binade(v) == CHOOSE k \in -3..8 : AtLeastPow2(v, k) /\ ~AtLeastPow2(v, k + 1)

\* (a * 2^55 + b) mod (5 * 2^m), using 2^4 = 1 (mod 5).
RemPow(v, m) ==
    (2^m * (((v.a % 5) * 2^((55 - m) % 4)) % 5) + v.b) % (5 * 2^m)

\* Round the exact value v >= 0 to the nearest double, ties to even.  In the
\* binade k one unit in the last place is 2^(k-52), that is 5 * 2^(k+3) in
\* units of 1/(5 * 2^55).
FRound(v) ==
    IF v.a = 0 /\ v.b = 0 THEN v
    ELSE LET m == Binade(v) + 3
             ulp == 5 * 2^m
             r == RemPow(v, m)
             down == [a |-> v.a, b |-> v.b - r]
             up == [a |-> v.a, b |-> v.b - r + ulp]
         IN  IF 2 * r < ulp THEN down
             ELSE IF 2 * r > ulp THEN up
             ELSE IF RemPow(v, m + 1) = r THEN down ELSE up

\* c * n for a double c and an int n (converted exactly).
FMulInt(c, n) == FRound([a |-> c.a * n, b |-> c.b * n])
FAdd(x, y) == FRound([a |-> x.a + y.a, b |-> x.b + y.b])
\* int(v) for v >= 0: truncation.
FToInt(v) == IF v.a % 5 = 0 /\ v.b < 0 THEN (v.a \div 5) - 1 ELSE v.a \div 5

\* The weights exchanged: 60% heuristic, 40% semantic.
BlendExpr_swapped(h, s) == FToInt(FAdd(FMulInt(F06, h), FMulInt(F04, s)))

\* final_score = int(0.4 * heuristic_score + 0.6 * semantic_result.score)
BlendExpr(h, s) == FToInt(FAdd(FMulInt(F04, h), FMulInt(F06, s)))

\* BrandVoiceAgent.validate_script, given the object the semantic evaluator
\* returned (BrandScoreResponse declares score as a plain int: no range).
validate_script(brand_voice, script, semantic_result) ==
    LET heuristic_score == heuristic_check(brand_voice, script)
    IN  [score |-> BlendExpr(heuristic_score, semantic_result.score),
         heuristic_score |-> heuristic_score,
         llm_score |-> semantic_result.score,
         reasoning |-> semantic_result.reasoning,
         strengths |-> semantic_result.strengths,
         weaknesses |-> semantic_result.weaknesses,
         suggestions |-> semantic_result.suggestions]

(***************************************************************************)
(* ScriptWriterAgent._clean_script_formatting, for the scripts of the      *)
(* model: one line, no timestamp header, no code fence.  What is left of   *)
(* the function on such a text is the final rstrip of the line.            *)
(***************************************************************************)
clean_script_formatting(script) == RStrip(script)

(***************************************************************************)
(* Inputs of the model.                                                    *)
(***************************************************************************)
\* A brand profile as load_brand_voice returns it (the fields the validator
\* reads).  Signature phrases "wow", "yo", "xy"; one avoided term "um".
FireshipProfile ==
    [signature_phrases |-> << <<"w", "o", "w">>, <<"y", "o">>, <<"x", "y">> >>,
     avoid |-> << <<"u", "m">> >>]

\* Raw completions of the writer model.
RawWow == <<"W", "o", "w", " ", "z", ".", " ", "z", " ", "z", ".", " ">>
RawUm == <<"u", "m", " ", "z", ".">>
RawBlank == <<" ">>
RawLong == Rep(<<"z", " ">>, 26) \o <<".">>
RawScripts == {RawWow, RawUm, RawBlank, RawLong}

\* Objects the semantic evaluator can return.
SemScores == {0, 68, 69, 75, 150}
Feedbacks ==
    {[weaknesses |-> <<>>, suggestions |-> <<>>],
     [weaknesses |-> <<"too formal">>, suggestions |-> <<"shorter sentences">>]}
SemResponses ==
    {[score |-> s, reasoning |-> "r", strengths |-> <<"pace">>,
      weaknesses |-> f.weaknesses, suggestions |-> f.suggestions] :
        s \in SemScores, f \in Feedbacks}

\* Research briefs the scout model can return (message.content may be None).
Briefs == {None, Some(""), Some("brief")}

Topics == {None, Some(""), Some("WebAssembly")}
Formats == {"100_seconds", "tutorial"}

\* Trending lists: what get_trending_hn can return, and the cached file.
LiveItems == <<[title |-> "live story", score |-> 856]>>
CachedItems == <<[title |-> "cached story", score |-> 742]>>
HardcodedTopic == "The Latest JavaScript Framework Nobody Asked For"

(***************************************************************************)
(* State.                                                                  *)
(***************************************************************************)
VARIABLES
    args,           \* run_workflow's arguments: topic, format_type, demo_mode
    environ,        \* DEMO_MODE, the brand profile file, the cached trends file
    pc,             \* where run_workflow is
    initial_state,  \* Optional: the record built at workflow.py:323
    state,          \* Optional: the graph state the nodes read and write
    result,         \* Optional: the record run_workflow returned
    raised,         \* Optional: the exception that escaped run_workflow
    thread,         \* the fetch worker: "none", "running" or "finished"
    cell,           \* result[0] and error[0] of _get_trending_safe
    calls,          \* history: how often each step and collaborator ran
    hist,           \* history: what failed, how candidates were obtained
    vin,            \* Optional: inputs of a direct call of validate_script
    vout,           \* Optional: what that call returned
    other           \* Optional: a second call of run_workflow, while it is
                    \* not the one running

vars == <<args, environ, pc, initial_state, state, result, raised, thread, cell,
          calls, hist, vin, vout, other>>

\* The graph state while a run is under way.
st == Val(state)

\* The flag alone deciding, whatever DEMO_MODE holds.
DemoMode_flag_only == args.demo_mode

\* demo_mode as run_workflow (line 307) and the agents' constructors
\* (tech_scout.py:34) compute it: the flag or DEMO_MODE == "true"
\* (environ.DEMO_MODE is whether the variable, lowercased, is "true").
DemoMode == args.demo_mode \/ environ.DEMO_MODE

(***************************************************************************)
(* run_workflow: the initial record, the two ways it returns.              *)
(* The 'errors' list is one object: the graph hands the nodes the list of  *)
(* initial_state itself, so what a node appends is in initial_state too.   *)
(* In the model the list lives in the graph state's errors field.          *)
(***************************************************************************)
InitialRecord(topic, format_type) ==
    [topic |-> topic,
     format_type |-> format_type,
     research_brief |-> None,
     research_sources |-> None,
     draft_script |-> None,
     brand_score |-> None,
     heuristic_score |-> None,
     llm_score |-> None,
     validation_reasoning |-> None,
     validation_strengths |-> None,
     validation_weaknesses |-> None,
     validation_suggestions |-> None,
     final_script |-> None,
     iteration |-> 0,
     should_refine |-> FALSE,
     errors |-> <<>>,
     execution_mode |-> "live"]

\* A node's except clause: append "<Node> error: <e>" and re-raise.
NodeExcept(errs, prefix, e) == Append(errs, <<prefix, e>>)

\* The except clause returning a record that does not carry the error.
RunWorkflowExcept_silent(init, errs, e) ==
    [init EXCEPT !.errors = <<>>, !.final_script = None]

\* run_workflow's except clause (lines 370-378), once initial_state exists.
RunWorkflowExcept(init, errs, e) ==
    [init EXCEPT !.errors = Append(errs, <<"Workflow fatal error", e>>),
                 !.final_script = None]

\* final_script left as the graph returned it.
FinalState_unset(s) == s

\* run_workflow lines 345-368: final_state with final_script set.
FinalState(s) == [s EXCEPT !.final_script = s.draft_script]

\* load_brand_voice on the profile file of the channel.
load_brand_voice(file) ==
    CASE file = "ok" -> [ok |-> TRUE, v |-> FireshipProfile, e |-> ""]
      [] file = "missing" ->
            [ok |-> FALSE, v |-> FireshipProfile, e |-> "FileNotFoundError: brand profile not found"]
      [] OTHER ->
            [ok |-> FALSE, v |-> FireshipProfile, e |-> "ValueError: brand profile invalid"]

(***************************************************************************)
(* TechScoutAgent.                                                         *)
(***************************************************************************)
\* _load_cached_trends: the cached list, or FileNotFoundError.
load_cached_trends(file) ==
    IF file = "ok"
    THEN [ok |-> TRUE, v |-> CachedItems, e |-> "", source |-> "cached"]
    ELSE [ok |-> FALSE, v |-> <<>>, e |-> "FileNotFoundError: cache file required",
          source |-> "none"]

\* _get_trending_safe.  is_alive is thread.is_alive() after the join; c holds
\* result[0] and error[0].  A raise of _load_cached_trends inside the try is
\* caught at line 193, where the same call raises again.
get_trending_safe(demo, is_alive, c, file) ==
    IF demo THEN load_cached_trends(file)
    ELSE IF is_alive THEN load_cached_trends(file)
    ELSE IF c.error # None THEN load_cached_trends(file)
    ELSE IF c.result = None THEN load_cached_trends(file)
    ELSE IF Val(c.result) = <<>> THEN load_cached_trends(file)
    ELSE [ok |-> TRUE, v |-> Val(c.result), e |-> "", source |-> "live"]

\* The mode of a supplied topic following the demo flag.
SuppliedTopicMode_demo(demo) == IF demo THEN "cached" ELSE "live"

\* research_topic line 102: the mode when line 105 finds a topic supplied.
SuppliedTopicMode(demo) == "live"

\* research_topic lines 108-109.
DiscoveryMode(demo, trending) ==
    IF demo \/ Len(trending) > 0
    THEN (IF demo THEN "cached" ELSE "live")
    ELSE "live"

\* What _select_best_topic can return for a list: the hardcoded topic for an
\* empty list, else the model's answer, one of the titles.
SelectableTopics(trending) ==
    IF trending = <<>> THEN {HardcodedTopic}
    ELSE {trending[i].title : i \in 1..Len(trending)}

(***************************************************************************)
(* The conditional edge and the decision of validate_node.                 *)
(***************************************************************************)
\* The threshold taken inclusively: a score of exactly 75 is refined.
RefinementNeeded_inclusive(brand_score, iteration) ==
    brand_score <= 75 /\ iteration < 2

\* The cap off by one: a single refinement.
RefinementNeeded_cap1(brand_score, iteration) ==
    brand_score < 75 /\ iteration < 1

\* validate_node line 141.
RefinementNeeded(brand_score, iteration) == brand_score < 75 /\ iteration < 2

\* The "refine" branch wired to the draft node.
should_refine_to_draft(s) ==
    IF s.should_refine /\ s.iteration < 2 THEN "draft" ELSE "end"

\* The conditional edge allowing a single refinement.
should_refine_cap1(s) == IF s.should_refine /\ s.iteration < 1 THEN "refine" ELSE "end"

\* The refinement edge taken whatever the verdict was.
should_refine_any_score(s) == IF s.iteration < 2 THEN "refine" ELSE "end"

\* should_refine, lines 204-214: the node to run after validate.
should_refine(s) == IF s.should_refine /\ s.iteration < 2 THEN "refine" ELSE "end"

\* The refine node wired straight to END.
AfterRefine_end == "end"

\* The refine node wired back to the draft node.
AfterRefine_draft == "draft"

\* build_workflow line 259: the edge from refine back to validate.
AfterRefine == "validate"

\* The counter left alone.
RefineIncrement_none(iteration) == iteration

\* refine_node line 168.
RefineIncrement(iteration) == iteration + 1

(***************************************************************************)
(* Initial states: one call of run_workflow, about to start.               *)
(***************************************************************************)
NoCalls ==
    [scout |-> 0, draft |-> 0, validate |-> 0, refine |-> 0, fetch |-> 0,
     select |-> 0, research |-> 0, gen_draft |-> 0, gen_refine |-> 0,
     heuristic |-> 0, semantic |-> 0]

NoHist ==
    [failed |-> "none", error |-> "", fetch |-> "none", source |-> "none",
     last_gen |-> None, low_prefix |-> 0, scored |-> None, verdict |-> None,
     steps |-> <<>>, list |-> None, gen |-> None]

\* History: a step has been entered; generate_script has been called.
Stepped(h, step) == [h EXCEPT !.steps = Append(@, step)]
Generated(h, brief, format_type) ==
    [h EXCEPT !.gen = Some([research_brief |-> brief, format_type |-> format_type])]

EmptyCell == [result |-> None, error |-> None]

Init ==
    /\ args \in [topic : Topics, format_type : Formats, demo_mode : BOOLEAN]
    /\ environ \in [DEMO_MODE : BOOLEAN, profile : {"ok", "missing", "invalid"},
                    cache : {"ok", "missing"}]
    /\ pc = "build"
    /\ initial_state = None
    /\ state = None
    /\ result = None
    /\ raised = None
    /\ thread = "none"
    /\ cell = EmptyCell
    /\ calls = NoCalls
    /\ hist = NoHist
    /\ vin = None
    /\ vout = None
    /\ other = None

(***************************************************************************)
(* run_workflow lines 318-345: build the graph, build the initial record.  *)
(* The agents' constructors catch a profile error; build_workflow's own    *)
(* load_brand_voice (line 232) does not.  Its error reaches the except     *)
(* clause at line 370, which reads initial_state before it was assigned.   *)
(***************************************************************************)
Build ==
    /\ pc = "build"
    /\ LET bv == load_brand_voice(environ.profile)
       IN  IF bv.ok
           THEN /\ initial_state' = Some(InitialRecord(args.topic, args.format_type))
                /\ state' = Some(InitialRecord(args.topic, args.format_type))
                /\ pc' = "scout"
                /\ UNCHANGED <<raised, hist>>
           ELSE /\ raised' = Some("UnboundLocalError: initial_state")
                /\ pc' = "raised"
                /\ hist' = [hist EXCEPT !.failed = "build", !.error = bv.e]
                /\ UNCHANGED <<initial_state, state>>
    /\ UNCHANGED <<args, environ, result, thread, cell, calls, vin, vout, other>>

\* The except clause returning the graph state the failing node held.
Fails_last_state(node, prefix, e, h, c, s) ==
    LET errs == Append(NodeExcept(s.errors, prefix, e), <<"Workflow fatal error", e>>)
    IN  /\ result' = Some([s EXCEPT !.errors = errs, !.final_script = None])
        /\ state' = Some([s EXCEPT !.errors = errs])
        /\ pc' = "returned"
        /\ hist' = [h EXCEPT !.failed = node, !.error = e]
        /\ calls' = c
        /\ UNCHANGED <<args, environ, initial_state, raised, thread, cell, vin, vout, other>>

\* A node raised e with the graph state s in hand: the node's except clause
\* records it and re-raises, invoke propagates it, run_workflow's except
\* clause returns initial_state.
Fails(node, prefix, e, h, c, s) ==
    LET res == RunWorkflowExcept(Val(initial_state), NodeExcept(s.errors, prefix, e), e)
    IN  /\ result' = Some(res)
        /\ state' = Some([s EXCEPT !.errors = res.errors])
        /\ pc' = "returned"
        /\ hist' = [h EXCEPT !.failed = node, !.error = e]
        /\ calls' = c
        /\ UNCHANGED <<args, environ, initial_state, raised, thread, cell, vin, vout, other>>

(***************************************************************************)
(* scout_node.                                                             *)
(***************************************************************************)
\* scout_node lines 71-74.
ScoutWrite(s, r) ==
    [s EXCEPT !.research_brief = r.brief,
              !.research_sources = Some(r.sources),
              !.execution_mode = r.mode,
              !.topic = Some(r.topic)]

\* research_topic from line 108 on, and the rest of scout_node.  discover:
\* no topic was supplied; tr: what _get_trending_safe did.
ScoutRest(discover, tr, tag) ==
    LET h == [Stepped(hist, "scout") EXCEPT
                  !.fetch = tag,
                  !.source = IF discover THEN tr.source ELSE "none",
                  !.list = IF discover /\ tr.ok THEN Some(tr.v) ELSE None]
        c0 == [calls EXCEPT !.scout = @ + 1]
        selecting == discover /\ tr.ok /\ tr.v # <<>>
        c1 == IF selecting THEN [c0 EXCEPT !.select = @ + 1] ELSE c0
        c2 == [c1 EXCEPT !.research = @ + 1]
    IN  IF discover /\ ~tr.ok
        THEN Fails("scout", "Scout error", tr.e, h, c0, st)
        ELSE \/ /\ selecting
                /\ Fails("scout", "Scout error", "APIError: topic selection", h, c1, st)
             \/ Fails("scout", "Scout error", "APIError: research", h, c2, st)
             \/ \E topic \in (IF discover THEN SelectableTopics(tr.v) ELSE {Val(st.topic)}),
                   brief \in Briefs :
                    /\ state' = Some(ScoutWrite(st,
                           [topic |-> topic, brief |-> brief, sources |-> <<>>,
                            mode |-> IF discover THEN DiscoveryMode(DemoMode, tr.v)
                                     ELSE SuppliedTopicMode(DemoMode)]))
                    /\ pc' = "draft"
                    /\ hist' = h
                    /\ calls' = c2
                    /\ UNCHANGED <<args, environ, initial_state, result, raised,
                                   thread, cell, vin, vout, other>>

\* Scout with a supplied topic, or in demo mode: no worker thread.
ScoutDirect ==
    /\ pc = "scout"
    /\ ~FalsyStr(st.topic) \/ DemoMode
    /\ IF ~FalsyStr(st.topic)
       THEN ScoutRest(FALSE, load_cached_trends(environ.cache), "none")
       ELSE ScoutRest(TRUE, get_trending_safe(TRUE, FALSE, cell, environ.cache), "demo")

\* _get_trending_safe lines 160-173: start the worker and wait for it.
ScoutStartFetch ==
    /\ pc = "scout"
    /\ FalsyStr(st.topic) /\ ~DemoMode
    /\ thread' = "running"
    /\ pc' = "scout_join"
    /\ calls' = [calls EXCEPT !.fetch = @ + 1]
    /\ UNCHANGED <<args, environ, initial_state, state, result, raised, cell, hist,
                   vin, vout, other>>

\* What the worker can leave behind: a list, an empty list, an exception.
FetchOutcomes ==
    {[result |-> Some(LiveItems), error |-> None],
     [result |-> Some(<<>>), error |-> None],
     [result |-> None, error |-> Some("RequestException")]}

\* A worker that finishes after the deadline hands its first title to the run.
FetchFinish_publishes ==
    /\ thread = "running"
    /\ \E c \in FetchOutcomes :
          /\ cell' = c
          /\ state' = IF pc # "scout_join" /\ state # None /\ c.result # None
                         /\ c.result # Some(<<>>)
                      THEN Some([st EXCEPT !.topic = Some(Val(c.result)[1].title)])
                      ELSE state
    /\ thread' = "finished"
    /\ UNCHANGED <<args, environ, pc, initial_state, result, raised, calls,
                   hist, vin, vout, other>>

\* scrape_with_timeout finishes, at any time after it was started.
FetchFinish ==
    /\ thread = "running"
    /\ \E c \in FetchOutcomes : cell' = c
    /\ thread' = "finished"
    /\ UNCHANGED <<args, environ, pc, initial_state, state, result, raised, calls,
                   hist, vin, vout, other>>

\* thread.join(timeout=5.0) returns: the worker finished, or 5 seconds passed
\* and it is still running.  Lines 176-191, then the rest of Scout.
ScoutJoin ==
    /\ pc = "scout_join"
    /\ LET alive == thread = "running"
           tag == IF alive THEN "timeout"
                  ELSE IF cell.error # None THEN "error"
                  ELSE IF Val(cell.result) = <<>> THEN "empty"
                  ELSE "live"
       IN  ScoutRest(TRUE, get_trending_safe(FALSE, alive, cell, environ.cache), tag)

(***************************************************************************)
(* draft_node.                                                             *)
(***************************************************************************)
Draft ==
    /\ pc = "draft"
    /\ LET c0 == [calls EXCEPT !.draft = @ + 1]
           c1 == [c0 EXCEPT !.gen_draft = @ + 1]
           h0 == Stepped(hist, "draft")
           h1 == Generated(h0, Val(st.research_brief), st.format_type)
       IN  IF FalsyStr(st.research_brief)
           THEN Fails("draft", "Writer error", "ValueError: no research brief",
                      h0, c0, st)
           ELSE \/ Fails("draft", "Writer error", "APIError: generation", h1, c1, st)
                \/ \E raw \in RawScripts :
                      LET script == clean_script_formatting(raw)
                      IN  /\ state' = Some([st EXCEPT !.draft_script = Some(script)])
                          /\ pc' = "validate"
                          /\ calls' = c1
                          /\ hist' = [h1 EXCEPT !.last_gen = Some(script)]
                          /\ UNCHANGED <<args, environ, initial_state, result, raised,
                                         thread, cell, vin, vout, other>>

(***************************************************************************)
(* validate_node, and the conditional edge that follows it.                *)
(***************************************************************************)
\* The heuristic score of an earlier Validate left in place.
ValidateWrite_stale_heuristic(s, r) ==
    [s EXCEPT !.brand_score = Some(r.score),
              !.heuristic_score = IF @ = None THEN Some(r.heuristic_score) ELSE @,
              !.llm_score = Some(r.llm_score),
              !.validation_reasoning = Some(r.reasoning),
              !.validation_strengths = Some(r.strengths),
              !.validation_weaknesses = Some(r.weaknesses),
              !.validation_suggestions = Some(r.suggestions),
              !.should_refine = RefinementNeeded(r.score, s.iteration)]

\* validate_node lines 130-145.
ValidateWrite(s, r) ==
    [s EXCEPT !.brand_score = Some(r.score),
              !.heuristic_score = Some(r.heuristic_score),
              !.llm_score = Some(r.llm_score),
              !.validation_reasoning = Some(r.reasoning),
              !.validation_strengths = Some(r.strengths),
              !.validation_weaknesses = Some(r.weaknesses),
              !.validation_suggestions = Some(r.suggestions),
              !.should_refine = RefinementNeeded(r.score, s.iteration)]

Validate ==
    /\ pc = "validate"
    /\ LET c0 == [calls EXCEPT !.validate = @ + 1]
           c1 == [c0 EXCEPT !.heuristic = @ + 1, !.semantic = @ + 1]
           h0 == Stepped(hist, "validate")
       IN  IF FalsyText(st.draft_script)
           THEN Fails("validate", "Validator error", "ValueError: no draft script",
                      h0, c0, st)
           ELSE \/ Fails("validate", "Validator error", "APIError: structured output",
                         [h0 EXCEPT !.scored = st.draft_script], c1, st)
                \/ \E resp \in SemResponses :
                      LET r == validate_script(load_brand_voice(environ.profile).v,
                                               Val(st.draft_script), resp)
                          s2 == ValidateWrite(st, r)
                      IN  /\ state' = Some(s2)
                          /\ pc' = should_refine(s2)
                          /\ calls' = c1
                          /\ hist' = [h0 EXCEPT !.low_prefix =
                                        IF r.score < 75 /\ @ = calls.validate
                                        THEN @ + 1 ELSE @,
                                                  !.scored = st.draft_script,
                                                  !.verdict = Some(r)]
                          /\ UNCHANGED <<args, environ, initial_state, result, raised,
                                         thread, cell, vin, vout, other>>

(***************************************************************************)
(* refine_node: the increment and the checks, then the generation call.    *)
(***************************************************************************)
\* refine_node lines 175-186: the prompt made of the feedback and the draft.
RefinementPrompt(s) ==
    [weaknesses |-> Val(s.validation_weaknesses),
     suggestions |-> Val(s.validation_suggestions),
     original |-> Val(s.draft_script)]

\* The prompt stored as the run's research brief.
RefineWrite_overwrites_brief(s, script) ==
    [s EXCEPT !.draft_script = Some(script), !.research_brief = Some("prompt")]

\* refine_node line 193.
RefineWrite(s, script) == [s EXCEPT !.draft_script = Some(script)]

RefineBegin ==
    /\ pc = "refine"
    /\ LET s1 == [st EXCEPT !.iteration = RefineIncrement(@)]
           c0 == [calls EXCEPT !.refine = @ + 1]
           h0 == Stepped(hist, "refine")
       IN  IF FalsyText(s1.draft_script)
           THEN Fails("refine", "Refine error", "ValueError: no draft script to refine",
                      h0, c0, s1)
           ELSE IF s1.validation_weaknesses = None \/ s1.validation_suggestions = None
           THEN Fails("refine", "Refine error", "TypeError: NoneType is not iterable",
                      h0, c0, s1)
           ELSE /\ state' = Some(s1)
                /\ pc' = "refine_gen"
                /\ calls' = c0
                /\ hist' = h0
                /\ UNCHANGED <<args, environ, initial_state, result, raised, thread,
                               cell, vin, vout, other>>

RefineGenerate ==
    /\ pc = "refine_gen"
    /\ LET c1 == [calls EXCEPT !.gen_refine = @ + 1]
           h1 == Generated(hist, RefinementPrompt(st), st.format_type)
       IN  \/ Fails("refine", "Refine error", "APIError: generation", h1, c1, st)
           \/ \E raw \in RawScripts :
                 LET script == clean_script_formatting(raw)
                 IN  /\ state' = Some(RefineWrite(st, script))
                     /\ pc' = AfterRefine
                     /\ calls' = c1
                     /\ hist' = [h1 EXCEPT !.last_gen = Some(script)]
                     /\ UNCHANGED <<args, environ, initial_state, result, raised,
                                    thread, cell, vin, vout, other>>

(***************************************************************************)
(* run_workflow lines 345-368: invoke returned, set final_script, return.  *)
(***************************************************************************)
Finish ==
    /\ pc = "end"
    /\ result' = Some(FinalState(st))
    /\ pc' = "returned"
    /\ UNCHANGED <<args, environ, initial_state, state, raised, thread, cell, calls,
                   hist, vin, vout, other>>

Next ==
    \/ Build
    \/ ScoutDirect
    \/ ScoutStartFetch
    \/ FetchFinish
    \/ ScoutJoin
    \/ Draft
    \/ Validate
    \/ RefineBegin
    \/ RefineGenerate
    \/ Finish

Spec == Init /\ [][Next]_vars

\* The steps of the thread that called run_workflow.  Each of them is a
\* stretch of sequential code whose calls return or raise (the join returns
\* after 5 seconds at the latest), so the thread goes on while one is enabled.
RunStep ==
    \/ Build
    \/ ScoutDirect
    \/ ScoutStartFetch
    \/ ScoutJoin
    \/ Draft
    \/ Validate
    \/ RefineBegin
    \/ RefineGenerate
    \/ Finish

LiveSpec == Spec /\ WF_vars(RunStep)

(***************************************************************************)
(* Two calls of run_workflow at once.  What a call keeps in its frame and  *)
(* in the objects it created (arguments, agents, initial_state, the graph  *)
(* state, the fetch worker and its cells) is that call's; the environment  *)
(* (DEMO_MODE, the profile and cache files) is the process's.  The call    *)
(* that is not running is kept in 'other'; the scheduler can pass from one *)
(* call to the other between any two steps.                                *)
(***************************************************************************)
\* The running call, as it is kept while the other one runs.
Parked ==
    [args |-> args, pc |-> pc, initial_state |-> initial_state, state |-> state,
     result |-> result, raised |-> raised, thread |-> thread, cell |-> cell,
     calls |-> calls, hist |-> hist]

\* A call about to start.
NewCall(a) ==
    [args |-> a, pc |-> "build", initial_state |-> None, state |-> None,
     result |-> None, raised |-> None, thread |-> "none", cell |-> EmptyCell,
     calls |-> NoCalls, hist |-> NoHist]

\* The scheduler passing to the other call, with result[0] and error[0] of
\* _get_trending_safe being one pair of cells for all calls.
Switch_sharedCell ==
    /\ other # None
    /\ LET o == Val(other)
       IN  /\ args' = o.args
           /\ pc' = o.pc
           /\ initial_state' = o.initial_state
           /\ state' = o.state
           /\ result' = o.result
           /\ raised' = o.raised
           /\ thread' = o.thread
           /\ calls' = o.calls
           /\ hist' = o.hist
    /\ other' = Some(Parked)
    /\ UNCHANGED <<environ, cell, vin, vout>>

\* The scheduler passing to the other call.
Switch ==
    /\ other # None
    /\ LET o == Val(other)
       IN  /\ args' = o.args
           /\ pc' = o.pc
           /\ initial_state' = o.initial_state
           /\ state' = o.state
           /\ result' = o.result
           /\ raised' = o.raised
           /\ thread' = o.thread
           /\ cell' = o.cell
           /\ calls' = o.calls
           /\ hist' = o.hist
    /\ other' = Some(Parked)
    /\ UNCHANGED <<environ, vin, vout>>

\* The arguments of the two calls, and the collaborator responses followed
\* when two calls run at once.
ConcurrentArgs ==
    [topic : {None, Some("WebAssembly")}, format_type : {"100_seconds"},
     demo_mode : {FALSE}]
ConcurrentResponses ==
    /\ state # None =>
          /\ st.research_brief \in {None, Some("brief")}
          /\ st.draft_script \in {None, Some(clean_script_formatting(RawUm))}
          /\ st.llm_score \in {None, Some(68), Some(75)}
          /\ st.validation_suggestions \in {None, Some(<<>>)}

InitConcurrent ==
    /\ args \in ConcurrentArgs
    /\ environ \in [DEMO_MODE : BOOLEAN, profile : {"ok"}, cache : {"ok", "missing"}]
    /\ pc = "build"
    /\ initial_state = None
    /\ state = None
    /\ result = None
    /\ raised = None
    /\ thread = "none"
    /\ cell = EmptyCell
    /\ calls = NoCalls
    /\ hist = NoHist
    /\ vin = None
    /\ vout = None
    /\ other \in {Some(NewCall(a)) : a \in ConcurrentArgs}

NextConcurrent ==
    \/ Next /\ ConcurrentResponses'
    \/ Switch

SpecConcurrent == InitConcurrent /\ [][NextConcurrent]_vars

(***************************************************************************)
(* validate_script called directly, on inputs that make the heuristic      *)
(* score take each of its values and the semantic score each of 0..100.    *)
(***************************************************************************)
MaxAvoid == 16
MaxSemScore == 100

\* Twenty one-letter terms a profile can list under 'avoid'.
AvoidPool ==
    << <<"a">>, <<"b">>, <<"c">>, <<"d">>, <<"e">>, <<"f">>, <<"g">>, <<"h">>,
       <<"i">>, <<"j">>, <<"k">>, <<"l">>, <<"m">>, <<"n">>, <<"o">>, <<"p">>,
       <<"q">>, <<"r">>, <<"s">>, <<"t">> >>
PoolWord == <<" ", "a", "b", "c", "d", "e", "f", "g", "h", "i", "j", "k", "l", "m",
              "n", "o", "p", "q", "r", "s", "t", ".">>

ProfileAvoiding(n) ==
    [signature_phrases |-> FireshipProfile.signature_phrases,
     avoid |-> SubSeq(AvoidPool, 1, Min(n, Len(AvoidPool)))]

\* A sentence of n words "z", after the given opening words.
SentenceOf(opening, n) == opening \o Rep(<<" ", "z">>, n) \o <<".">>
TextTwoPhrases ==
    SentenceOf(<<"W", "o", "w", " ", "y", "o">>, 8) \o <<" ">>
      \o SentenceOf(<<"z">>, 9) \o <<" ">> \o SentenceOf(<<"z">>, 9)
TextThreePhrases == SentenceOf(<<"w", "o", "w", " ", "Y", "o", " ", "x", "y">>, 4)
TextPlain == SentenceOf(<<"z">>, 5)
TextMedium == SentenceOf(<<"z">>, 19)
TextLong == SentenceOf(<<"z">>, 25)
TextNoSentence == <<" ", ".", " ">>
TestScripts ==
    {TextTwoPhrases, TextThreePhrases \o PoolWord, TextPlain \o PoolWord,
     TextMedium, TextLong \o PoolWord, TextLong \o <<" ">> \o TextLong \o PoolWord,
     TextNoSentence}

InitValidate ==
    /\ vin \in {Some([brand_voice |-> ProfileAvoiding(n), script |-> t,
                      semantic_result |-> [score |-> s, reasoning |-> "r",
                                           strengths |-> <<>>, weaknesses |-> <<>>,
                                           suggestions |-> <<>>]]) :
                    n \in 0..MaxAvoid, t \in TestScripts, s \in 0..MaxSemScore}
    /\ vout = None
    /\ pc = "validate_script"
    /\ args = [topic |-> None, format_type |-> "100_seconds", demo_mode |-> FALSE]
    /\ environ = [DEMO_MODE |-> FALSE, profile |-> "ok", cache |-> "ok"]
    /\ initial_state = None
    /\ state = None
    /\ result = None
    /\ raised = None
    /\ thread = "none"
    /\ cell = EmptyCell
    /\ calls = NoCalls
    /\ hist = NoHist
    /\ other = None

ApplyValidateScript ==
    /\ pc = "validate_script"
    /\ vout' = Some(validate_script(Val(vin).brand_voice, Val(vin).script,
                                    Val(vin).semantic_result))
    /\ pc' = "validated"
    /\ UNCHANGED <<args, environ, initial_state, state, result, raised, thread, cell,
                   calls, hist, vin, other>>

SpecValidate == InitValidate /\ [][ApplyValidateScript]_vars

(***************************************************************************)
(* _heuristic_check called directly, on texts built from a description:    *)
(* how many words each sentence has, which signature phrases and how many  *)
(* avoided terms were written into it.  The description travels with the   *)
(* input, so that the score can be compared with what the description      *)
(* calls for.                                                              *)
(***************************************************************************)
\* A profile with four signature phrases (one spelled with a capital) and
\* the first n terms of AvoidPool under 'avoid'.
HeuristicProfile(n) ==
    [signature_phrases |-> << <<"w", "u", "w">>, <<"Y", "u">>, <<"x", "y">>,
                              <<"u", "x">> >>,
     avoid |-> SubSeq(AvoidPool, 1, n)]

\* The four phrases as a script spells them.
PhraseSpellings ==
    << <<"W", "u", "w">>, <<"y", "U">>, <<"X", "Y">>, <<"u", "x">> >>

\* Which phrases a script contains, how many words its first sentence has,
\* the word counts of its further sentences, how many pool terms it contains.
PhraseChoices == {{}, {1}, {2, 3}, {1, 4}, {1, 2, 3}, {1, 2, 3, 4}}
FirstSentenceWords == {1, 10, 14, 15, 16, 20, 25, 26, 36}
FurtherSentences == {<<>>, <<10, 10>>, <<14>>, <<15>>, <<16>>, <<26, 24>>}
PoolTermsWritten == {0, 1, 13, 16}
AvoidListed == {0, 1, 12, 13, 16}

RECURSIVE JoinWords(_)
JoinWords(ws) ==
    IF ws = <<>> THEN <<>>
    ELSE IF Len(ws) = 1 THEN ws[1]
    ELSE ws[1] \o <<" ">> \o JoinWords(Tail(ws))

RECURSIVE JoinSentences(_)
JoinSentences(ss) ==
    IF ss = <<>> THEN <<>>
    ELSE JoinWords(ss[1]) \o <<".">>
           \o (IF Len(ss) = 1 THEN <<>> ELSE <<" ">> \o JoinSentences(Tail(ss)))

\* The script of a description: the chosen phrases, then m pool terms, then
\* filler words "z", w1 words in all; then the further sentences of filler.
BuiltScript(ps, m, w1, further) ==
    LET phraseWords == SelectSeq([i \in 1..4 |-> IF i \in ps THEN PhraseSpellings[i]
                                                  ELSE <<>>],
                                 LAMBDA w : w # <<>>)
        poolWords == SubSeq(AvoidPool, 1, m)
        fill(k) == [i \in 1..k |-> <<"z">>]
        first == phraseWords \o poolWords \o fill(w1 - Len(phraseWords) - m)
    IN  JoinSentences(<<first>> \o [i \in 1..Len(further) |-> fill(further[i])])

InitHeuristic ==
    /\ \E ps \in PhraseChoices, m \in PoolTermsWritten, w1 \in FirstSentenceWords,
          further \in FurtherSentences, n \in AvoidListed :
          /\ w1 >= Cardinality(ps) + m
          /\ vin = Some([brand_voice |-> HeuristicProfile(n),
                         script |-> BuiltScript(ps, m, w1, further),
                         sentences |-> 1 + Len(further),
                         words |-> w1 + SumSeq(further),
                         phrases |-> Cardinality(ps),
                         avoided |-> Min(m, n)])
    /\ vout = None
    /\ pc = "heuristic_check"
    /\ args = [topic |-> None, format_type |-> "100_seconds", demo_mode |-> FALSE]
    /\ environ = [DEMO_MODE |-> FALSE, profile |-> "ok", cache |-> "ok"]
    /\ initial_state = None
    /\ state = None
    /\ result = None
    /\ raised = None
    /\ thread = "none"
    /\ cell = EmptyCell
    /\ calls = NoCalls
    /\ hist = NoHist
    /\ other = None

ApplyHeuristicCheck ==
    /\ pc = "heuristic_check"
    /\ vout' = Some([heuristic_score |->
                        heuristic_check(Val(vin).brand_voice, Val(vin).script)])
    /\ pc' = "checked"
    /\ UNCHANGED <<args, environ, initial_state, state, result, raised, thread, cell,
                   calls, hist, vin, other>>

SpecHeuristic == InitHeuristic /\ [][ApplyHeuristicCheck]_vars

(***************************************************************************)
(* _heuristic_check on texts whose sentences end in '.', '!' or '?'.       *)
(***************************************************************************)
Terminators == {".", "!", "?"}
SentenceWordCounts == {2, 10, 15, 20, 30}
SentenceLists ==
    {<<>>} \cup {<<a>> : a \in SentenceWordCounts}
           \cup {<<a, b>> : a \in SentenceWordCounts, b \in SentenceWordCounts}
           \cup {<<a, b, b>> : a \in SentenceWordCounts, b \in SentenceWordCounts}

\* Sentences of filler words, each ended by the mark c; a text without any
\* sentence is the mark alone.
RECURSIVE TerminatedText(_, _)
TerminatedText(counts, c) ==
    IF counts = <<>> THEN <<c>>
    ELSE JoinWords([i \in 1..counts[1] |-> <<"z">>]) \o <<c>>
           \o (IF Len(counts) = 1 THEN <<>>
               ELSE <<" ">> \o TerminatedText(Tail(counts), c))

InitSentences ==
    /\ \E counts \in SentenceLists, c \in Terminators :
          vin = Some([brand_voice |-> HeuristicProfile(0),
                      script |-> TerminatedText(counts, c),
                      sentences |-> Len(counts),
                      words |-> SumSeq(counts),
                      phrases |-> 0,
                      avoided |-> 0,
                      terminator |-> c])
    /\ vout = None
    /\ pc = "heuristic_check"
    /\ args = [topic |-> None, format_type |-> "100_seconds", demo_mode |-> FALSE]
    /\ environ = [DEMO_MODE |-> FALSE, profile |-> "ok", cache |-> "ok"]
    /\ initial_state = None
    /\ state = None
    /\ result = None
    /\ raised = None
    /\ thread = "none"
    /\ cell = EmptyCell
    /\ calls = NoCalls
    /\ hist = NoHist
    /\ other = None

SpecSentences == InitSentences /\ [][ApplyHeuristicCheck]_vars

(***************************************************************************)
(* Properties.                                                             *)
(***************************************************************************)

\* C1: in every state of a run the graph state's iteration is at most 2 and
\* equals the number of Refine executions started so far; it starts at 0, is
\* incremented once per Refine, before that Refine's generation call (while
\* the call is pending, iteration is already one more than the number of
\* refinement generations made), and no other step changes it.
C1_IterationCountsRefines ==
    state # None =>
        /\ st.iteration <= 2
        /\ st.iteration = calls.refine
        /\ calls.gen_refine <= st.iteration
        /\ pc = "refine_gen" => st.iteration = calls.gen_refine + 1
        /\ pc \in {"scout", "scout_join", "draft"} => st.iteration = 0

C1_Witness == pc = "refine_gen" /\ st.iteration = 2 /\ calls.gen_refine = 1

\* C2: right after a Validate, the next node is Refine exactly when the
\* blended score is below 75 and iteration is below 2, and Done otherwise.
C2_RefineIffLowAndUnderCap ==
    pc \in {"refine", "end"} =>
        ((pc = "refine") <=> (Val(st.brand_score) < 75 /\ st.iteration < 2))

C2_Witness ==
    /\ pc = "end"
    /\ Val(st.brand_score) = 75
    /\ st.iteration = 0

\* C3, as claimed: in a returned result final_script is set if and only if
\* the run ended holding a non-empty draft (so only runs that failed before
\* any draft existed end with final unset).
C3_FinalIffDraftHeld ==
    pc = "returned" =>
        ((Val(result).final_script # None) <=> ~FalsyText(st.draft_script))

\* C3, amended: in a returned result final_script is set if and only if no
\* step raised; it then equals the draft the run ended with, which is not
\* empty.  A run in which a step raised returns final unset, also when a
\* draft existed.
C3_FinalIffNoStepRaised ==
    pc = "returned" =>
        /\ (Val(result).final_script # None) <=> (hist.failed = "none")
        /\ Val(result).final_script # None =>
              /\ Val(result).final_script = st.draft_script
              /\ ~FalsyText(Val(result).final_script)

C3_Witness ==
    /\ pc = "returned"
    /\ hist.failed = "validate"
    /\ ~FalsyText(st.draft_script)
    /\ Val(result).final_script = None

\* C4: when a step raises, a message carrying that error is in errors, the
\* run is over (no step is enabled any more) and final is unset; a run in
\* which no step raised returns with errors empty and final set; so in every
\* returned result final is absent exactly when errors is non-empty.
NodeStep ==
    \/ ScoutDirect \/ ScoutStartFetch \/ ScoutJoin
    \/ Draft \/ Validate \/ RefineBegin \/ RefineGenerate

C4_FailureIffErrors ==
    /\ hist.failed \notin {"none", "build"} => pc = "returned" /\ ~ENABLED NodeStep
    /\ pc = "returned" =>
          LET r == Val(result)
          IN  /\ hist.failed # "none" =>
                    /\ \E i \in DOMAIN r.errors : r.errors[i][2] = hist.error
                    /\ r.final_script = None
              /\ hist.failed = "none" => r.errors = <<>> /\ r.final_script # None
              /\ (r.final_script = None) <=> (r.errors # <<>>)

C4_Witness ==
    /\ pc = "returned"
    /\ hist.failed = "refine"
    /\ Val(result).errors # <<>>
    /\ Val(result).final_script = None
    /\ calls.validate = 2

\* C5: if the brand profile cannot be loaded, no step runs, no collaborator
\* is called, and the caller receives the profile error itself: no result
\* object and no other exception.
C5_ProfileErrorSurfaced ==
    (environ.profile # "ok" /\ pc # "build") =>
        /\ raised = Some(load_brand_voice(environ.profile).e)
        /\ result = None
        /\ calls = NoCalls

\* C6: in auto-discovery with demo mode off, when the fetch timed out,
\* raised or returned nothing, Scout goes on with the cached list and is not
\* failed by it (it can only fail in its own model calls), and no error about
\* the candidates is recorded.
CandidateErrors == {load_cached_trends("missing").e}
C6_FetchFailureRecovered ==
    hist.fetch \in {"timeout", "error", "empty"} =>
        /\ hist.source = "cached"
        /\ hist.failed = "scout" => hist.error \notin CandidateErrors
        /\ \A i \in DOMAIN st.errors : st.errors[i][2] \notin CandidateErrors

\* C7: once Scout has completed, execution_mode is "cached" whenever the
\* candidates came from the cached list, and "live" only when they came from
\* the live source or the caller supplied the topic.
C7_ModeIsProvenance ==
    (pc \in {"draft", "validate", "refine", "refine_gen", "end"}) =>
        /\ hist.source = "cached" => st.execution_mode = "cached"
        /\ st.execution_mode = "live" => hist.source \in {"live", "none"}

\* C8: when the first two Validates both scored below 75, the second one
\* leads to a second Refine and a third Validate; after the third Validate
\* the run goes to Done whatever it scored; a run that then returns without
\* failure made exactly 2 Refines and 3 Validates and its final is the text
\* the second Refine generated.
C8_TwoLowScores ==
    hist.low_prefix >= 2 =>
        /\ calls.refine <= 2 /\ calls.validate <= 3
        /\ (calls.validate = 2 /\ hist.failed = "none") =>
              pc \in {"refine", "refine_gen", "validate"}
        /\ (calls.validate = 3 /\ hist.failed = "none") =>
              pc \in {"end", "returned"} /\ calls.refine = 2
        /\ (pc = "returned" /\ hist.failed = "none") =>
              /\ calls.validate = 3 /\ calls.refine = 2 /\ calls.gen_refine = 2
              /\ Val(result).final_script = hist.last_gen
              /\ Val(result).iteration = 2

C8_Witness ==
    /\ pc = "returned"
    /\ hist.failed = "none"
    /\ hist.low_prefix = 3
    /\ Val(result).final_script = hist.last_gen
    /\ calls.gen_refine = 2

\* C9: generate_script is called at most 3 times in a run: at most once by
\* Draft and at most twice by Refine.
C9_AtMostThreeGenerations ==
    /\ calls.gen_draft <= 1
    /\ calls.gen_refine <= 2
    /\ calls.gen_draft + calls.gen_refine <= 3

C9_Witness == calls.gen_draft = 1 /\ calls.gen_refine = 2 /\ pc = "validate"

\* C10: for every heuristic score the scorer returns and every semantic
\* score in 0..100, validate_script's blended score is floor(0.4*h + 0.6*s),
\* that is (4*h + 6*s) div 10, and lies in 0..100.
C10_BlendIsFloor ==
    vout # None =>
        LET r == Val(vout)
        IN  r.llm_score \in 0..100 =>
              /\ r.heuristic_score \in 0..100
              /\ r.score = (4 * r.heuristic_score + 6 * r.llm_score) \div 10
              /\ r.score \in 0..100

C10_Witness ==
    /\ vout # None
    /\ Val(vout).heuristic_score = 90
    /\ Val(vout).llm_score = 60
    /\ Val(vout).score = 72

\* C11: for a text with at least one sentence, the heuristic score is
\* clamp(70 + L + min(5*P, 15) - 5*A, 0, 100): L is +10 when the mean number
\* of words per sentence is below 15, -10 when it is above 25 and 0 otherwise
\* (so 0 at exactly 15 and at exactly 25), P is the number of signature
\* phrases and A the number of avoided terms the text contains, whatever
\* their case.  The score is in 0..100.
C11_HeuristicFormula ==
    vout # None =>
        LET d == Val(vin)
            L == IF d.words < 15 * d.sentences THEN 10
                 ELSE IF d.words > 25 * d.sentences THEN -10
                 ELSE 0
            raw == 70 + L + Min(5 * d.phrases, 15) - 5 * d.avoided
            h == Val(vout).heuristic_score
        IN  /\ h = Max(0, Min(100, raw))
            /\ h \in 0..100

\* Three sentences of ten words, two signature phrases, one avoided term: 85.
C11_Witness ==
    /\ vout # None
    /\ Val(vin).sentences = 3 /\ Val(vin).words = 30
    /\ Val(vin).phrases = 2 /\ Val(vin).avoided = 1
    /\ Val(vout).heuristic_score = 85

\* C12: in a result returned without failure, a final script together with
\* a score below 75 means the iteration cap was used up (iteration = 2); a
\* successful run that ends with iteration below 2 has a score of at least 75.
C12_LowScoreMeansCapExhausted ==
    (pc = "returned" /\ hist.failed = "none") =>
        LET r == Val(result)
        IN  /\ (r.final_script # None /\ Val(r.brand_score) < 75) => r.iteration = 2
            /\ r.iteration < 2 => Val(r.brand_score) >= 75

C12_Witness ==
    /\ pc = "returned"
    /\ hist.failed = "none"
    /\ Val(result).final_script # None
    /\ Val(Val(result).brand_score) < 75
    /\ Val(result).iteration = 2

\* C13: while a step is running or still to run, final_script is unset and
\* nothing has been returned; no step writes final_script into the run state;
\* the result, once returned, is never changed; and in a result returned
\* without failure final_script is the last draft written, which is the draft
\* the last Validate scored: the reported score, heuristic score, semantic
\* score and feedback are the ones computed from it.
C13_FinalIsTheScoredDraft ==
    /\ [](/\ state # None => st.final_script = None
          /\ pc # "returned" => result = None
          /\ (pc = "returned" /\ hist.failed = "none") =>
                LET r == Val(result)
                    v == Val(hist.verdict)
                IN  /\ r.final_script = hist.last_gen
                    /\ r.final_script = hist.scored
                    /\ r.brand_score = Some(v.score)
                    /\ r.heuristic_score = Some(v.heuristic_score)
                    /\ r.llm_score = Some(v.llm_score)
                    /\ r.validation_weaknesses = Some(v.weaknesses)
                    /\ r.validation_suggestions = Some(v.suggestions)
                    /\ v.heuristic_score =
                          heuristic_check(load_brand_voice(environ.profile).v,
                                          Val(r.final_script)))
    /\ [][result # None => result' = result]_vars

C13_Witness ==
    /\ pc = "returned"
    /\ hist.failed = "none"
    /\ calls.gen_refine = 1
    /\ Val(result).final_script = hist.scored
    /\ Val(result).final_script # None

\* C14: every run comes to an end (it returns a result or raises), after at
\* most one Scout, one Draft, three Validate and two Refine executions.
C14_RunTerminates ==
    /\ [](/\ calls.scout <= 1
          /\ calls.draft <= 1
          /\ calls.validate <= 3
          /\ calls.refine <= 2)
    /\ <>(pc \in {"returned", "raised"})

C14_Witness ==
    /\ pc = "returned"
    /\ calls.scout = 1 /\ calls.draft = 1
    /\ calls.validate = 3 /\ calls.refine = 2

\* C15: with two runs interleaved in any order, a step of one run leaves the
\* other run's state as it was, and what each run returns is made of that
\* run's own arguments and of the responses that run itself received: its
\* errors are its own failure, its final script is the text its own last
\* generation produced, its score is its own last Validate's, its iteration
\* is the number of its own Refines, its execution_mode follows from its own
\* arguments; the fetch cells of a run are written by that run's worker only.
OwnResult(run) ==
    /\ run.thread # "finished" => run.cell = EmptyCell
    /\ run.result # None =>
          LET r == Val(run.result)
              h == run.hist
          IN  /\ r.format_type = run.args.format_type
              /\ h.failed = "none" =>
                    /\ r.errors = <<>>
                    /\ r.final_script = h.last_gen
                    /\ r.brand_score = Some(Val(h.verdict).score)
                    /\ r.iteration = run.calls.refine
                    /\ r.execution_mode =
                          (IF ~FalsyStr(run.args.topic) THEN "live"
                           ELSE IF run.args.demo_mode \/ environ.DEMO_MODE
                           THEN "cached" ELSE "live")
              /\ h.failed # "none" =>
                    /\ Len(r.errors) = 2
                    /\ r.errors[1][2] = h.error /\ r.errors[2][2] = h.error
                    /\ r.final_script = None
                    /\ r.brand_score = None
                    /\ r.iteration = 0
                    /\ r.execution_mode = "live"

C15_RunsDoNotInterfere ==
    /\ [](OwnResult(Parked) /\ (other # None => OwnResult(Val(other))))
    /\ [][other' # other => other' = Some(Parked)]_vars

\* Both runs have returned, one failed and one succeeded, after steps of the
\* two were interleaved (each started a fetch worker; one worker is still
\* under way after its run returned).
C15_Witness ==
    /\ other # None
    /\ pc = "returned" /\ Val(other).pc = "returned"
    /\ hist.failed = "none" /\ Val(other).hist.failed # "none"
    /\ thread = "finished" /\ Val(other).thread = "running"

\* C16: when the caller supplied a non-empty topic, no fetch worker is
\* started, no cached list is used, no topic selection is made; the topic in
\* the run state and in the result is the supplied one; and once Scout has
\* completed execution_mode is "live", in demo mode too.
C16_SuppliedTopicResearchedAsIs ==
    (state # None /\ args.topic # None /\ args.topic # Some("")) =>
        /\ calls.fetch = 0 /\ thread = "none" /\ cell = EmptyCell
        /\ calls.select = 0
        /\ hist.source = "none" /\ hist.fetch = "none"
        /\ st.topic = args.topic
        /\ st.execution_mode = "live"
        /\ result # None =>
              /\ Val(result).topic = args.topic
              /\ Val(result).execution_mode = "live"

C16_Witness ==
    /\ pc = "returned"
    /\ hist.failed = "none"
    /\ args.topic = Some("WebAssembly")
    /\ args.demo_mode
    /\ calls.research = 1
    /\ Val(result).topic = Some("WebAssembly")
    /\ Val(result).execution_mode = "live"

\* C17: demo mode is in effect when the flag is true or DEMO_MODE is "true"
\* (a false flag does not switch it off).  In demo mode auto-discovery never
\* starts the fetch worker and never uses a live list; when Scout completes,
\* the candidates came from the cached list, the topic is one of its titles
\* and the mode is "cached".
C17_DemoModeUsesCache ==
    (state # None /\ (args.demo_mode \/ environ.DEMO_MODE)
       /\ (args.topic = None \/ args.topic = Some(""))) =>
        /\ calls.fetch = 0 /\ thread = "none" /\ cell = EmptyCell
        /\ hist.source # "live"
        /\ pc \in {"draft", "validate", "refine", "refine_gen", "end"} =>
              /\ hist.source = "cached"
              /\ \E i \in DOMAIN CachedItems : st.topic = Some(CachedItems[i].title)
              /\ st.execution_mode = "cached"

C17_Witness ==
    /\ pc = "draft"
    /\ ~args.demo_mode /\ environ.DEMO_MODE
    /\ args.topic = None
    /\ hist.source = "cached"
    /\ st.execution_mode = "cached"
    /\ calls.fetch = 0

\* C18: in every state of a run, should_refine = true implies that the score
\* is below 75 and iteration is below 2, also between a Refine's increment
\* of iteration and the next Validate.
C18_FlagImpliesLowAndUnderCap ==
    (state # None /\ st.should_refine) =>
        /\ st.brand_score # None
        /\ Val(st.brand_score) < 75
        /\ st.iteration < 2

\* C19: when the research collaborator returned an empty brief, the run
\* fails in Scout: Scout records the error, and Draft is never entered.
C19_EmptyBriefFailsInScout ==
    (state # None /\ calls.research > 0
       /\ (st.research_brief = None \/ st.research_brief = Some(""))) =>
        /\ pc = "returned"
        /\ hist.failed = "scout"
        /\ calls.draft = 0

\* C20: Draft makes no generation call when research_brief is absent or
\* empty, and Validate calls neither scorer when the draft is absent or
\* empty (also when Draft or Refine produced the empty text); the step then
\* fails with the missing-input error, the run returns through the error
\* path and final is unset.
C20_MissingInputStopsTheStep ==
    state # None =>
        LET noBrief == st.research_brief = None \/ st.research_brief = Some("")
            noDraft == st.draft_script = None \/ st.draft_script = Some(<<>>)
        IN  /\ calls.gen_draft > 0 => ~noBrief
            /\ (calls.draft > 0 /\ noBrief) =>
                  /\ pc = "returned"
                  /\ hist.failed = "draft"
                  /\ hist.error = "ValueError: no research brief"
                  /\ Val(result).final_script = None
            /\ calls.heuristic = calls.semantic
            /\ (hist.scored # None) => (hist.scored # Some(<<>>))
            /\ calls.heuristic > 0 => hist.scored # None
            /\ st.draft_script = None => calls.validate = 0
            /\ pc \in {"refine", "refine_gen", "end"} => ~noDraft
            /\ (st.draft_script = Some(<<>>) /\ pc # "validate") =>
                  /\ pc = "returned"
                  /\ hist.failed = "validate"
                  /\ hist.error = "ValueError: no draft script"
                  /\ calls.heuristic = calls.validate - 1
                  /\ Val(result).final_script = None

\* Refine produced an empty text; the Validate after it failed without
\* scoring it.
C20_Witness ==
    /\ pc = "returned"
    /\ hist.failed = "validate"
    /\ hist.error = "ValueError: no draft script"
    /\ calls.gen_refine = 1
    /\ st.draft_script = Some(<<>>)
    /\ calls.validate = 2 /\ calls.heuristic = 1
    /\ Val(result).final_script = None

\* C21: Refine makes no generation call when the preceding Validate left
\* both the weaknesses and the suggestions empty: it fails with a
\* missing-input error and the run ends through the error path.
C21_EmptyFeedbackStopsRefine ==
    (state # None /\ st.validation_weaknesses = Some(<<>>)
       /\ st.validation_suggestions = Some(<<>>)) =>
        pc # "refine_gen"

\* C22: a semantic evaluation whose score is outside 0..100 makes Validate
\* fail, so whenever the score or the semantic score is set in the run state
\* it lies in 0..100.
C22_ScoresWithinRange ==
    state # None =>
        /\ st.llm_score # None => Val(st.llm_score) \in 0..100
        /\ st.brand_score # None => Val(st.brand_score) \in 0..100

\* C23: sentences are split at '.', '!' and '?' alike and empty fragments
\* are dropped: the length adjustment follows the mean number of words per
\* sentence whichever mark ends the sentences, and a text in which no
\* sentence remains scores exactly the base score 70.
C23_SplitsAtEveryTerminalMark ==
    vout # None =>
        LET d == Val(vin)
            L == IF d.words < 15 * d.sentences THEN 10
                 ELSE IF d.words > 25 * d.sentences THEN -10
                 ELSE 0
        IN  Val(vout).heuristic_score = (IF d.sentences = 0 THEN 70 ELSE 70 + L)

\* C24: whenever the score is set, it is the blend of the heuristic score
\* and the semantic score held in the state, and these three and the
\* feedback fields are those of one Validate execution (the last one that
\* completed); a Validate that completes writes all of them, and a Validate
\* that fails, like every other step, changes none of them.
ValidationFields ==
    IF state = None THEN None
    ELSE Some([score |-> st.brand_score,
               heuristic_score |-> st.heuristic_score,
               llm_score |-> st.llm_score,
               reasoning |-> st.validation_reasoning,
               strengths |-> st.validation_strengths,
               weaknesses |-> st.validation_weaknesses,
               suggestions |-> st.validation_suggestions])

C24_ScoresComeFromOneValidate ==
    /\ []((state # None /\ st.brand_score # None) =>
            /\ st.heuristic_score # None /\ st.llm_score # None
            /\ Val(st.brand_score) =
                  BlendExpr(Val(st.heuristic_score), Val(st.llm_score))
            /\ Val(st.llm_score) \in 0..100 =>
                  Val(st.brand_score) =
                     (4 * Val(st.heuristic_score) + 6 * Val(st.llm_score)) \div 10
            /\ hist.verdict # None
            /\ LET v == Val(hist.verdict)
               IN  Val(ValidationFields) =
                      [score |-> Some(v.score),
                       heuristic_score |-> Some(v.heuristic_score),
                       llm_score |-> Some(v.llm_score),
                       reasoning |-> Some(v.reasoning),
                       strengths |-> Some(v.strengths),
                       weaknesses |-> Some(v.weaknesses),
                       suggestions |-> Some(v.suggestions)])
    /\ [][(state # None /\ ValidationFields' # ValidationFields) =>
            /\ pc = "validate"
            /\ calls'.validate = calls.validate + 1
            /\ hist'.failed = "none"]_vars
    /\ [][(pc = "validate" /\ hist'.failed = "validate") =>
            ValidationFields' = ValidationFields]_vars

\* A second Validate has completed after the first one's scores were held,
\* and a third one failed leaving the second one's values.
C24_Witness ==
    /\ pc = "returned"
    /\ hist.failed = "validate"
    /\ calls.validate = 3
    /\ st.brand_score # None
    /\ Val(st.brand_score) = Val(hist.verdict).score

(***************************************************************************)
(* C25: the steps of a run happen one at a time in the order Scout, Draft, *)
(* Validate, then zero or more (Refine, Validate) pairs.  Scout and Draft  *)
(* happen at most once; a step is entered only when every earlier step     *)
(* completed without error, so Draft follows a successful Scout and every  *)
(* Validate directly follows a successful Draft or Refine; every Refine    *)
(* directly follows a Validate whose score was below 75.                   *)
(***************************************************************************)
StepAt(i) ==
    IF i = 1 THEN "scout"
    ELSE IF i = 2 THEN "draft"
    ELSE IF i % 2 = 1 THEN "validate" ELSE "refine"

C25_StepsInOrder ==
    /\ [](/\ \A i \in 1..Len(hist.steps) : hist.steps[i] = StepAt(i)
          /\ hist.failed \notin {"none", "build"} =>
                 /\ hist.steps # <<>>
                 /\ hist.steps[Len(hist.steps)] = hist.failed
                 /\ pc = "returned")
    /\ [][hist'.steps # hist.steps =>
             /\ hist.failed = "none"
             /\ Len(hist'.steps) = Len(hist.steps) + 1
             /\ SubSeq(hist'.steps, 1, Len(hist.steps)) = hist.steps
             /\ hist'.steps[Len(hist'.steps)] = "refine" =>
                    /\ hist.steps[Len(hist.steps)] = "validate"
                    /\ st.brand_score # None
                    /\ st.brand_score = Some(Val(hist.verdict).score)
                    /\ Val(st.brand_score) < 75]_vars

C25_Witness ==
    /\ hist.steps = <<"scout", "draft", "validate", "refine", "validate",
                      "refine", "validate">>
    /\ pc = "returned"
    /\ hist.failed = "none"
    /\ Val(hist.verdict).score < 75

(***************************************************************************)
(* C26: when the 5-second deadline expires with the worker still running,  *)
(* the candidates are the cached list: the topic selected is one of its    *)
(* titles.  A worker finishing after the deadline, with a result or with   *)
(* an error, changes no field of the run state, no result and no step.     *)
(* Every list _get_trending_safe returns is the cached list or the whole   *)
(* non-empty result of a worker that finished without error.               *)
(***************************************************************************)
C26_LateWorkerIsDiscarded ==
    /\ [](/\ hist.fetch = "timeout" =>
                /\ hist.list \in {None, Some(CachedItems)}
                /\ hist.source # "live"
                /\ hist.failed \notin {"scout", "build"} =>
                       /\ hist.list = Some(CachedItems)
                       /\ st.topic \in {Some(t) : t \in SelectableTopics(CachedItems)}
                /\ (pc = "returned" /\ hist.failed = "none") =>
                       Val(result).topic = st.topic
          /\ hist.list # None =>
                \/ hist.list = Some(CachedItems) /\ hist.source = "cached"
                \/ /\ hist.fetch = "live" /\ hist.source = "live"
                   /\ thread = "finished"
                   /\ cell.error = None
                   /\ cell.result = hist.list
                   /\ hist.list # Some(<<>>))
    /\ [][(thread = "running" /\ thread' = "finished") =>
             UNCHANGED <<state, result, raised, initial_state, pc, hist, calls>>]_vars

C26_Witness ==
    /\ hist.fetch = "timeout"
    /\ thread = "finished"
    /\ cell.result = Some(LiveItems)
    /\ pc = "returned"
    /\ hist.failed = "none"
    /\ hist.list = Some(CachedItems)
    /\ Val(result).topic = Some(CachedItems[1].title)

(***************************************************************************)
(* C27: when the live fetch fails or times out, or demo mode is on, and    *)
(* the cached candidate file is missing, discovery continues with the      *)
(* hardcoded topic and Scout completes: no error of the cache load reaches *)
(* the run.                                                                *)
(***************************************************************************)
C27_MissingCacheUsesHardcodedTopic ==
    (environ.cache = "missing"
       /\ hist.fetch \in {"timeout", "error", "empty", "demo"}) =>
        /\ hist.failed = "scout" => hist.error # load_cached_trends("missing").e
        /\ (hist.failed # "scout" /\ state # None) =>
               /\ st.topic = Some(HardcodedTopic)
               /\ hist.list = Some(<<>>)

(***************************************************************************)
(* C28: once Scout has completed, no step of Draft, Validate or Refine     *)
(* changes topic, format_type, research_brief, research_sources or         *)
(* execution_mode.  Draft hands the stored brief to the generator; Refine  *)
(* hands it the prompt made of the feedback and the draft and leaves       *)
(* research_brief as it was; every generation call gets the format the run *)
(* was started with.                                                       *)
(***************************************************************************)
ResearchFields ==
    IF state = None THEN None
    ELSE Some([topic |-> st.topic, format_type |-> st.format_type,
               research_brief |-> st.research_brief,
               research_sources |-> st.research_sources,
               execution_mode |-> st.execution_mode])

C28_ResearchFieldsAreFrozen ==
    /\ [](/\ hist.gen # None => Val(hist.gen).format_type = args.format_type
          /\ state # None => st.format_type = args.format_type)
    /\ [][(pc \in {"draft", "validate", "refine", "refine_gen", "end"}) =>
             ResearchFields' = ResearchFields]_vars
    /\ [][calls'.gen_draft = calls.gen_draft + 1 =>
             hist'.gen = Some([research_brief |-> Val(st.research_brief),
                               format_type |-> args.format_type])]_vars
    /\ [][calls'.gen_refine = calls.gen_refine + 1 =>
             /\ hist'.gen = Some([research_brief |->
                                     [weaknesses |-> Val(st.validation_weaknesses),
                                      suggestions |-> Val(st.validation_suggestions),
                                      original |-> Val(st.draft_script)],
                                  format_type |-> args.format_type])
             /\ st'.research_brief = st.research_brief]_vars

C28_Witness ==
    /\ pc = "end"
    /\ calls.gen_refine = 2
    /\ hist.gen # None
    /\ Val(hist.gen).format_type = args.format_type
    /\ st.research_brief # None
    /\ st.research_brief # Some("")
    /\ st.draft_script = hist.last_gen
    /\ st.execution_mode = "cached"

(***************************************************************************)
(* C29: when a step fails, however many steps completed before it, the     *)
(* result of run_workflow is the record built before the first step with   *)
(* only errors changed: draft, scores, feedback and research_brief unset,  *)
(* iteration 0, execution_mode "live".                                     *)
(***************************************************************************)
C29_FailedRunReturnsInitialRecord ==
    (pc = "returned" /\ hist.failed \notin {"none", "build"}) =>
        LET r == Val(result)
        IN  /\ r = [InitialRecord(args.topic, args.format_type)
                       EXCEPT !.errors = r.errors]
            /\ r.errors # <<>>
            /\ r.draft_script = None /\ r.research_brief = None
            /\ r.brand_score = None /\ r.heuristic_score = None /\ r.llm_score = None
            /\ r.validation_reasoning = None /\ r.validation_strengths = None
            /\ r.validation_weaknesses = None /\ r.validation_suggestions = None
            /\ r.iteration = 0
            /\ r.execution_mode = "live"

C29_Witness ==
    /\ pc = "returned"
    /\ hist.failed = "refine"
    /\ hist.steps = <<"scout", "draft", "validate", "refine", "validate", "refine">>
    /\ st.iteration = 2
    /\ st.brand_score # None
    /\ st.execution_mode = "cached"
    /\ Val(result).iteration = 0
    /\ Val(result).brand_score = None
    /\ Val(result).execution_mode = "live"

(***************************************************************************)
(* C30: the heuristic score is never above 95, so the clamp at 100 never   *)
(* acts; and for a semantic score in 0..100 the blended score is below 75  *)
(* whenever the semantic score is below 62 or the heuristic score is       *)
(* below 38.                                                               *)
(***************************************************************************)
C30_HeuristicAtMost95 ==
    vout # None =>
        LET r == Val(vout)
        IN  /\ r.heuristic_score <= 95
            /\ (r.llm_score \in 0..100
                  /\ (r.llm_score < 62 \/ r.heuristic_score < 38)) =>
                   r.score < 75

C30_Witness ==
    /\ vout # None
    /\ Val(vout).heuristic_score = 95
    /\ Val(vout).llm_score = 61
    /\ Val(vout).score = 74
====
